---------------------------- MODULE Spec2Model ----------------------------
(***************************************************************************)
(* Classic Battleship (human against a random-shooting bot).                *)
(*                                                                         *)
(* The module models the geometry helpers and the placement validator of   *)
(* src/src/utils.py, the board and the game loop of src/src/gameplay.py,   *)
(* the random fleet generator of src/src/bot_generation.py and the         *)
(* interactive placement loop of src/src/ship_input.py.                    *)
(*                                                                         *)
(* A cell is a pair <<row, col>>, a ship a pair <<start, end>> of cells, a *)
(* fleet a sequence of ships.  A Python exception is modelled by the value *)
(* the raising function yields: a record with ok = FALSE, or the name of   *)
(* the error.  All exceptions of the validator are ValueError in the code; *)
(* the names used here tell the raise statements apart.                    *)
(*                                                                         *)
(* The specifications share the variables; each one leaves the variables   *)
(* of the other components at their idle values:                           *)
(*   Spec          a GameBoard under any sequence of record_shot calls     *)
(*   SpecValidate  validate_ship_placement applied to an input fleet       *)
(*   SpecBot       generate_bot_ships, one step per loop iteration         *)
(*   SpecPlace     get_player_ships, one step per line entered             *)
(*   SpecGame      play_game, one step per shot attempt or check           *)
(*   SpecCodec     parse_coordinates and format_coordinates, one after the  *)
(*                 other in either order                                   *)
(*   SpecCells     get_ship_cells applied to two cells                     *)
(* SpecGameFair and SpecBotFair add to SpecGame and SpecBot the fairness of *)
(* the code's own steps, for the termination properties.                   *)
(***************************************************************************)
EXTENDS Integers, Sequences, FiniteSets, TLC

VARIABLES
    board,          \* Spec: the GameBoard object
    last_shot,      \* Spec: the last record_shot call, [cell, result]
    v_ships,        \* SpecValidate: the argument ships
    v_final_check,  \* SpecValidate: the argument final_check
    v_result,       \* SpecValidate: "pending", then what the call yields
    gen,            \* SpecBot: the locals of generate_bot_ships and its place
    place,          \* SpecPlace: the locals of get_player_ships and its place
    last_line,      \* SpecPlace: the last line entered and what became of it
    player_board,   \* SpecGame: the player's GameBoard
    bot_board,      \* SpecGame: the bot's GameBoard
    game_state,     \* SpecGame: the GameState object, [turn, move_history]
    game,           \* SpecGame: the locals of play_game and its place
    codec,          \* SpecCodec: a text or a cell on its way through the codec
    cells_call      \* SpecCells: one call of get_ship_cells, [start, end, ...]

boardVars == <<board, last_shot>>
validateVars == <<v_ships, v_final_check, v_result>>
botVars == <<gen>>
placeVars == <<place, last_line>>
gameVars == <<player_board, bot_board, game_state, game>>
utilVars == <<codec, cells_call>>
vars == <<board, last_shot, v_ships, v_final_check, v_result, gen, place,
          last_line, player_board, bot_board, game_state, game, codec,
          cells_call>>

(***************************************************************************)
(* Program constants (src/src/utils.py)                                    *)
(***************************************************************************)
BOARD_SIZE == 10
SHIP_SIZES == <<4, 3, 3, 2, 2, 2, 1, 1, 1, 1>>

(***************************************************************************)
(* Bounds of the model                                                     *)
(***************************************************************************)
\* record_shot is called on the first BoardWindow cells of ShotCell's order
BoardWindow == 8
\* the validator's two-ship inputs lie in rows < PairRows, cols < PairCols
PairRows == 3
PairCols == 4
\* an input fleet differs from the reference fleet in at most MaxEdits ships
MaxEdits == 2
\* generate_bot_ships is called with max_attempts in 0..MaxAttempts
MaxAttempts == 2
\* the player names, and hits or misses, the first PlayerWindow cells of
\* ShotCell's order; the bot draws the first BotWindow cells
PlayerWindow == 5
BotWindow == 3
\* get_player_ships reads lines while fewer than MaxRejected entered ships
\* were refused by the validator
MaxRejected == 2
\* parse_coordinates is given the texts of at most MaxTextLen characters
MaxTextLen == 4

(***************************************************************************)
(* Python built-ins                                                        *)
(***************************************************************************)
Range(s) == {s[i] : i \in DOMAIN s}
Min(a, b) == IF a <= b THEN a ELSE b
Max(a, b) == IF a >= b THEN a ELSE b

\* list.insert at the place that keeps s ascending
Insert(x, s) ==
    LET k == Cardinality({i \in DOMAIN s : s[i] < x})
    IN  SubSeq(s, 1, k) \o <<x>> \o SubSeq(s, k + 1, Len(s))

\* list.count
count(s, x) == Cardinality({i \in DOMAIN s : s[i] = x})

RECURSIVE sorted(_)
sorted(s) == IF s = <<>> THEN <<>> ELSE Insert(Head(s), sorted(Tail(s)))

(***************************************************************************)
(* Text: a string is a sequence of one-character strings.  The alphabet of *)
(* the model is the space, the signs, the digits and the letters A..K and  *)
(* a..k; ord gives each its code point.                                    *)
(***************************************************************************)
UpperLetters == <<"A", "B", "C", "D", "E", "F", "G", "H", "I", "J", "K">>
LowerLetters == <<"a", "b", "c", "d", "e", "f", "g", "h", "i", "j", "k">>
Digits == <<"0", "1", "2", "3", "4", "5", "6", "7", "8", "9">>

IndexIn(seq, x) == CHOOSE i \in DOMAIN seq : seq[i] = x

ord(ch) ==
    IF ch \in Range(UpperLetters) THEN 64 + IndexIn(UpperLetters, ch)
    ELSE IF ch \in Range(LowerLetters) THEN 96 + IndexIn(LowerLetters, ch)
    ELSE IF ch \in Range(Digits) THEN 47 + IndexIn(Digits, ch)
    ELSE IF ch = " " THEN 32
    ELSE IF ch = "+" THEN 43
    ELSE IF ch = "-" THEN 45
    ELSE 0

chr(n) ==
    IF n \in 65..75 THEN UpperLetters[n - 64]
    ELSE IF n \in 97..107 THEN LowerLetters[n - 96]
    ELSE IF n \in 48..57 THEN Digits[n - 47]
    ELSE IF n = 32 THEN " "
    ELSE IF n = 43 THEN "+"
    ELSE IF n = 45 THEN "-"
    ELSE "?"

\* str.upper
upper(text) ==
    [i \in DOMAIN text |->
        IF text[i] \in Range(LowerLetters)
        THEN UpperLetters[IndexIn(LowerLetters, text[i])]
        ELSE text[i]]

\* str.lower
lower(text) ==
    [i \in DOMAIN text |->
        IF text[i] \in Range(UpperLetters)
        THEN LowerLetters[IndexIn(UpperLetters, text[i])]
        ELSE text[i]]

\* str.strip
RECURSIVE lstrip(_)
lstrip(text) ==
    IF text # <<>> /\ Head(text) = " " THEN lstrip(Tail(text)) ELSE text
RECURSIVE rstrip(_)
rstrip(text) ==
    IF text # <<>> /\ text[Len(text)] = " "
    THEN rstrip(SubSeq(text, 1, Len(text) - 1))
    ELSE text
strip(text) == rstrip(lstrip(text))

\* str(n) of an integer n >= 0
RECURSIVE str(_)
str(n) ==
    IF n < 10 THEN <<Digits[n + 1]>>
    ELSE Append(str(n \div 10), Digits[(n % 10) + 1])

\* the value of a non-empty run of digits
RECURSIVE DigitsValue(_)
DigitsValue(ds) ==
    IF ds = <<>> THEN 0
    ELSE 10 * DigitsValue(SubSeq(ds, 1, Len(ds) - 1))
            + (ord(ds[Len(ds)]) - 48)

\* int(text): surrounding spaces, an optional sign, digits; ok = FALSE is the
\* ValueError
int(text) ==
    LET t == strip(text)
        signed == t # <<>> /\ t[1] \in {"+", "-"}
        ds == IF signed THEN Tail(t) ELSE t
    IN  IF ds = <<>> \/ \E i \in DOMAIN ds : ds[i] \notin Range(Digits)
        THEN [ok |-> FALSE, value |-> 0]
        ELSE [ok |-> TRUE,
              value |-> IF signed /\ t[1] = "-"
                        THEN 0 - DigitsValue(ds)
                        ELSE DigitsValue(ds)]

(***************************************************************************)
(* utils.py: the coordinate codec                                          *)
(***************************************************************************)
\* parse_coordinates: ok = FALSE is one of its ValueErrors
parse_coordinates(coord_str) ==
    LET text == upper(strip(coord_str))
        row_char == text[1]
        col_str == Tail(text)
        parsed == int(col_str)
        col == parsed.value - 1
        failed == [ok |-> FALSE, row |-> 0, col |-> 0]
    IN  IF Len(text) < 2 THEN failed
        ELSE IF ord(row_char) < ord("A") \/ ord(row_char) > ord("J") THEN failed
        ELSE IF ~parsed.ok THEN failed
        ELSE IF col < 0 \/ col >= BOARD_SIZE THEN failed
        ELSE [ok |-> TRUE, row |-> ord(row_char) - ord("A"), col |-> col]

\* format_coordinates
format_coordinates(row, col) == <<chr(ord("A") + row)>> \o str(col + 1)

(***************************************************************************)
(* utils.py: geometry                                                      *)
(***************************************************************************)
\* the mutant of get_ship_cells: the run goes from start's index to end's,
\* without min and max
get_ship_cells_given_order(start, end) ==
    LET r1 == start[1]
        c1 == start[2]
        r2 == end[1]
        c2 == end[2]
    IN  IF r1 = r2
        THEN [ok |-> TRUE,
              cells |-> [i \in 1..(c2 - c1 + 1) |-> <<r1, c1 + i - 1>>]]
        ELSE IF c1 = c2
        THEN [ok |-> TRUE,
              cells |-> [i \in 1..(r2 - r1 + 1) |-> <<r1 + i - 1, c1>>]]
        ELSE [ok |-> FALSE, cells |-> <<>>]

\* get_ship_cells: the ordered cells of a ship; ok = FALSE is the ValueError
\* "Ship must be horizontal or vertical"
get_ship_cells(start, end) ==
    LET r1 == start[1]
        c1 == start[2]
        r2 == end[1]
        c2 == end[2]
    IN  IF r1 = r2
        THEN [ok |-> TRUE,
              cells |-> [i \in 1..(Max(c1, c2) - Min(c1, c2) + 1) |->
                            <<r1, Min(c1, c2) + i - 1>>]]
        ELSE IF c1 = c2
        THEN [ok |-> TRUE,
              cells |-> [i \in 1..(Max(r1, r2) - Min(r1, r2) + 1) |->
                            <<Min(r1, r2) + i - 1, c1>>]]
        ELSE [ok |-> FALSE, cells |-> <<>>]

\* set(get_ship_cells(start, end)) of a ship <<start, end>>
ShipCellSet(ship) == Range(get_ship_cells(ship[1], ship[2]).cells)

\* the mutant of Neighbours: the four orthogonal neighbours only
Neighbours_orthogonal(cell) ==
    {n \in {<<cell[1] + d[1], cell[2] + d[2]>> :
                d \in {<<-1, 0>>, <<1, 0>>, <<0, -1>>, <<0, 1>>}} :
        /\ 0 <= n[1] /\ n[1] < BOARD_SIZE
        /\ 0 <= n[2] /\ n[2] < BOARD_SIZE}

\* the dr, dc loops of get_adjacent_cells: the in-bounds 8-neighbours of a cell
Neighbours(cell) ==
    {n \in {<<cell[1] + d[1], cell[2] + d[2]>> :
                d \in ({-1, 0, 1} \X {-1, 0, 1}) \ {<<0, 0>>}} :
        /\ 0 <= n[1] /\ n[1] < BOARD_SIZE
        /\ 0 <= n[2] /\ n[2] < BOARD_SIZE}

\* get_adjacent_cells: the adjacency halo of a list of cells
get_adjacent_cells(cells) ==
    UNION {Neighbours(cell) : cell \in Range(cells)} \ Range(cells)

(***************************************************************************)
(* utils.py: validate_ship_placement                                       *)
(***************************************************************************)
\* the mutant of ValidateLoop: the adjacency check is missing
RECURSIVE ValidateLoop_no_adjacency(_, _, _)
ValidateLoop_no_adjacency(ships, i, all_cells) ==
    IF i > Len(ships) THEN "ok"
    ELSE LET sc == get_ship_cells(ships[i][1], ships[i][2])
             cells == Range(sc.cells)
             ship_size == Cardinality(cells)
         IN  IF ~sc.ok THEN "GeometryError"
             ELSE IF ship_size \notin Range(SHIP_SIZES) THEN "SizeError"
             ELSE IF all_cells \cap cells # {} THEN "OverlapError"
             ELSE ValidateLoop_no_adjacency(ships, i + 1, all_cells \cup cells)

\* the for loop of validate_ship_placement from ship i on, all_cells being
\* the cells of the ships before i; the result is "ok" or the error raised
RECURSIVE ValidateLoop(_, _, _)
ValidateLoop(ships, i, all_cells) ==
    IF i > Len(ships) THEN "ok"
    ELSE LET sc == get_ship_cells(ships[i][1], ships[i][2])
             cells == Range(sc.cells)
             ship_size == Cardinality(cells)
         IN  IF ~sc.ok THEN "GeometryError"
             ELSE IF ship_size \notin Range(SHIP_SIZES) THEN "SizeError"
             ELSE IF all_cells \cap cells # {} THEN "OverlapError"
             ELSE IF all_cells \cap get_adjacent_cells(sc.cells) # {}
                  THEN "AdjacencyError"
             ELSE ValidateLoop(ships, i + 1, all_cells \cup cells)

validate_ship_placement(ships, final_check) ==
    LET looped == ValidateLoop(ships, 1, {})
        actual_sizes ==
            sorted([i \in DOMAIN ships |->
                        Len(get_ship_cells(ships[i][1], ships[i][2]).cells)])
    IN  IF looped # "ok" THEN looped
        ELSE IF ~final_check THEN "ok"
        ELSE IF Len(ships) # Len(SHIP_SIZES) THEN "CountError"
        ELSE IF actual_sizes # sorted(SHIP_SIZES) THEN "SizeMismatchError"
        ELSE "ok"

(***************************************************************************)
(* gameplay.py: GameBoard                                                  *)
(***************************************************************************)
\* GameBoard.__init__
GameBoard(ships) ==
    [ships |-> ships,
     ship_cells |-> UNION {ShipCellSet(s) : s \in Range(ships)},
     hits |-> {},
     misses |-> {},
     destroyed_zones |-> {}]

\* the mutant of check_destroyed_ships: the halo is marked only once no ship
\* is left
check_destroyed_ships_all(b) ==
    IF \A s \in Range(b.ships) : ShipCellSet(s) \subseteq b.hits
    THEN [b EXCEPT !.destroyed_zones =
            @ \cup UNION {get_adjacent_cells(get_ship_cells(s[1], s[2]).cells)
                              \ ShipCellSet(s) : s \in Range(b.ships)}]
    ELSE b

\* the mutant of check_destroyed_ships: the halo is marked as soon as one
\* cell of the ship is hit
check_destroyed_ships_any_hit(b) ==
    [b EXCEPT !.destroyed_zones =
        @ \cup UNION {get_adjacent_cells(get_ship_cells(s[1], s[2]).cells)
                          \ ShipCellSet(s) :
                      s \in {t \in Range(b.ships) :
                                ShipCellSet(t) \cap b.hits # {}}}]

\* the mutant of check_destroyed_ships: the whole block around a destroyed
\* ship is marked, the ship's own cells included
check_destroyed_ships_whole_block(b) ==
    [b EXCEPT !.destroyed_zones =
        @ \cup UNION {UNION {Neighbours(c) : c \in ShipCellSet(s)} :
                      s \in {t \in Range(b.ships) :
                                ShipCellSet(t) \subseteq b.hits}}]

\* the mutant of check_destroyed_ships: a ship counts as destroyed once its
\* start cell is hit
check_destroyed_ships_start_hit(b) ==
    [b EXCEPT !.destroyed_zones =
        @ \cup UNION {get_adjacent_cells(get_ship_cells(s[1], s[2]).cells)
                          \ ShipCellSet(s) :
                      s \in {t \in Range(b.ships) : t[1] \in b.hits}}]

\* GameBoard._check_destroyed_ships: hits does not change during the loop, so
\* the loop adds the halo of every ship whose cells are all in hits
check_destroyed_ships(b) ==
    [b EXCEPT !.destroyed_zones =
        @ \cup UNION {get_adjacent_cells(get_ship_cells(s[1], s[2]).cells)
                          \ ShipCellSet(s) :
                      s \in {t \in Range(b.ships) :
                                ShipCellSet(t) \subseteq b.hits}}]

\* the mutant of record_shot: the already-shot test forgets destroyed_zones
record_shot_no_zone_test(b, row, col) ==
    LET cell == <<row, col>>
    IN  IF cell \in b.hits \/ cell \in b.misses
        THEN [board |-> b, result |-> "AlreadyShotError"]
        ELSE IF cell \in b.ship_cells
        THEN [board |-> check_destroyed_ships([b EXCEPT !.hits = @ \cup {cell}]),
              result |-> "hit"]
        ELSE [board |-> [b EXCEPT !.misses = @ \cup {cell}],
              result |-> "miss"]

\* GameBoard.record_shot: the board after the call and what the call yields
\* ("hit" for True, "miss" for False, "AlreadyShotError" for the ValueError)
record_shot(b, row, col) ==
    LET cell == <<row, col>>
    IN  IF cell \in b.hits \/ cell \in b.misses \/ cell \in b.destroyed_zones
        THEN [board |-> b, result |-> "AlreadyShotError"]
        ELSE IF cell \in b.ship_cells
        THEN [board |-> check_destroyed_ships([b EXCEPT !.hits = @ \cup {cell}]),
              result |-> "hit"]
        ELSE [board |-> [b EXCEPT !.misses = @ \cup {cell}],
              result |-> "miss"]

\* the mutant of has_ships_remaining: ships are always reported afloat
has_ships_remaining_always(b) == TRUE

\* the mutant of has_ships_remaining: the loop returns after the first ship
has_ships_remaining_first(b) ==
    IF Len(b.ships) = 0 THEN FALSE
    ELSE ~(ShipCellSet(b.ships[1]) \subseteq b.hits)

\* the for loop of has_ships_remaining from ship i on
RECURSIVE RemainingFrom(_, _)
RemainingFrom(b, i) ==
    IF i > Len(b.ships) THEN FALSE
    ELSE IF ~(ShipCellSet(b.ships[i]) \subseteq b.hits) THEN TRUE
    ELSE RemainingFrom(b, i + 1)

\* GameBoard.has_ships_remaining
has_ships_remaining(b) == RemainingFrom(b, 1)

\* the mutant of get_cell_state: "O" for a cell in one of misses and
\* destroyed_zones but not in both
get_cell_state_either(b, row, col) ==
    LET cell == <<row, col>>
    IN  IF cell \in b.hits THEN "X"
        ELSE IF (cell \in b.misses) # (cell \in b.destroyed_zones) THEN "O"
        ELSE "."

\* GameBoard.get_cell_state
get_cell_state(b, row, col) ==
    LET cell == <<row, col>>
    IN  IF cell \in b.hits THEN "X"
        ELSE IF cell \in b.misses \/ cell \in b.destroyed_zones THEN "O"
        ELSE "."

(***************************************************************************)
(* Input fleets                                                            *)
(***************************************************************************)
\* a fleet of the required sizes, in the order of SHIP_SIZES, whose ships lie
\* three or more apart
ReferenceFleet ==
    << <<<<0, 0>>, <<0, 3>>>>,
       <<<<3, 0>>, <<3, 2>>>>,
       <<<<6, 0>>, <<6, 2>>>>,
       <<<<3, 5>>, <<3, 6>>>>,
       <<<<6, 5>>, <<6, 6>>>>,
       <<<<9, 0>>, <<9, 1>>>>,
       <<<<0, 6>>, <<0, 6>>>>,
       <<<<0, 9>>, <<0, 9>>>>,
       <<<<3, 9>>, <<3, 9>>>>,
       <<<<6, 9>>, <<6, 9>>>> >>

\* the fleets a board is built from: the single size-1 ship, two ships of
\* size 2 inside the shot window, and the full reference fleet
BoardFleets ==
    {f \in { << <<<<0, 0>>, <<0, 0>>>> >>,
             << <<<<0, 0>>, <<1, 0>>>>, <<<<0, 2>>, <<0, 3>>>> >>,
             ReferenceFleet } :
        validate_ship_placement(f, FALSE) = "ok"}

\* the k-th cell (from 0) that shots are drawn from: rows 0 and 1, column by
\* column
ShotCell(k) == <<k % 2, k \div 2>>
BoardShots == {ShotCell(k) : k \in 0..(BoardWindow - 1)}

(***************************************************************************)
(* Idle values of each component's variables                               *)
(***************************************************************************)
BoardIdle ==
    /\ board = GameBoard(<<>>)
    /\ last_shot = [cell |-> <<0, 0>>, result |-> "none"]

ValidateIdle ==
    /\ v_ships = <<>>
    /\ v_final_check = FALSE
    /\ v_result = "idle"

BotIdle ==
    gen = [pc |-> "idle", max_attempts |-> 0, attempt |-> 0, ships |-> <<>>,
           all_cells |-> {}, all_adjacent |-> {}, valid |-> TRUE,
           size_idx |-> 1, placed |-> FALSE, attempts |-> 0,
           start |-> <<0, 0>>, end |-> <<0, 0>>]

PlaceIdle ==
    /\ place = [pc |-> "idle", ships |-> <<>>, ship_count |-> 0,
                accepted |-> <<>>]
    /\ last_line = [outcome |-> "none", ship |-> <<>>]

GameIdle ==
    /\ player_board = GameBoard(<<>>)
    /\ bot_board = GameBoard(<<>>)
    /\ game_state = [turn |-> 0, move_history |-> <<>>]
    /\ game = [pc |-> "idle", winner |-> "none", player_hit |-> FALSE,
               player_move_str |-> <<>>, bot_hit |-> FALSE,
               bot_move_str |-> <<>>,
               last_try |-> [actor |-> "none", outcome |-> "none"]]

CodecIdle ==
    codec = [pc |-> "idle", first |-> "none", in_text |-> <<>>,
             in_cell |-> <<0, 0>>, text |-> <<>>, cell |-> <<0, 0>>]

CellsIdle ==
    cells_call = [pc |-> "idle", start |-> <<0, 0>>, end |-> <<0, 0>>,
                  ok |-> TRUE, cells |-> <<>>]

UtilIdle == CodecIdle /\ CellsIdle

(***************************************************************************)
(* Spec: a board under record_shot calls                                   *)
(***************************************************************************)
Init ==
    /\ board \in {GameBoard(f) : f \in BoardFleets}
    /\ last_shot = [cell |-> <<0, 0>>, result |-> "none"]
    /\ ValidateIdle
    /\ BotIdle
    /\ PlaceIdle
    /\ GameIdle
    /\ UtilIdle

\* one call board.record_shot(row, col)
RecordShot ==
    \E cell \in BoardShots :
        LET r == record_shot(board, cell[1], cell[2])
        IN  /\ board' = r.board
            /\ last_shot' = [cell |-> cell, result |-> r.result]
            /\ UNCHANGED <<validateVars, botVars, placeVars, gameVars, utilVars>>

Next == RecordShot

Spec == Init /\ [][Next]_vars


(***************************************************************************)
(* SpecValidate: validate_ship_placement applied to an input                *)
(***************************************************************************)
\* for each place of the reference fleet, ships that may stand there instead:
\* reversed, moved, touching, overlapping, of another size, not a line
AltShips ==
    << {<<<<0, 3>>, <<0, 0>>>>, <<<<0, 0>>, <<0, 4>>>>, <<<<0, 0>>, <<0, 2>>>>},
       {<<<<2, 0>>, <<2, 2>>>>, <<<<1, 0>>, <<1, 2>>>>, <<<<0, 3>>, <<2, 3>>>>,
        <<<<3, 0>>, <<3, 3>>>>},
       {<<<<6, 0>>, <<8, 0>>>>, <<<<4, 3>>, <<6, 3>>>>},
       {<<<<3, 4>>, <<3, 5>>>>, <<<<3, 5>>, <<4, 6>>>>},
       {<<<<6, 5>>, <<7, 5>>>>},
       {<<<<9, 8>>, <<9, 9>>>>},
       {<<<<0, 5>>, <<0, 5>>>>, <<<<0, 4>>, <<0, 4>>>>, <<<<1, 4>>, <<1, 4>>>>},
       {<<<<9, 9>>, <<9, 9>>>>},
       {<<<<3, 9>>, <<4, 9>>>>},
       {<<<<7, 9>>, <<7, 9>>>>, <<<<6, 7>>, <<6, 7>>>>} >>

\* the reference fleet from place i on with at most k places changed
RECURSIVE FleetVariants(_, _)
FleetVariants(i, k) ==
    IF i > Len(ReferenceFleet) THEN {<<>>}
    ELSE {<<ReferenceFleet[i]>> \o t : t \in FleetVariants(i + 1, k)}
         \cup (IF k > 0
               THEN {<<a>> \o t : a \in AltShips[i],
                                  t \in FleetVariants(i + 1, k - 1)}
               ELSE {})

\* the fleets given to the validator: the variants of the reference fleet, its
\* prefixes, and the reference fleet with an eleventh ship
FleetInputs ==
    FleetVariants(1, MaxEdits)
    \cup {SubSeq(ReferenceFleet, 1, n) : n \in 0..Len(ReferenceFleet)}
    \cup {Append(ReferenceFleet, <<<<9, 5>>, <<9, 5>>>>)}

\* the lists of at most two ships whose ends are any two cells of the window
PairCells == (0..(PairRows - 1)) \X (0..(PairCols - 1))
PairShips == PairCells \X PairCells
PairInputs == UNION {[1..n -> PairShips] : n \in 0..2}

InitValidate ==
    /\ BoardIdle
    /\ BotIdle
    /\ PlaceIdle
    /\ GameIdle
    /\ UtilIdle
    /\ v_result = "pending"
    /\ \/ v_ships \in PairInputs /\ v_final_check = FALSE
       \/ v_ships \in FleetInputs /\ v_final_check \in BOOLEAN

\* the call validate_ship_placement(ships, final_check)
Validate ==
    /\ v_result = "pending"
    /\ v_result' = validate_ship_placement(v_ships, v_final_check)
    /\ UNCHANGED <<v_ships, v_final_check, boardVars, botVars, placeVars,
                   gameVars, utilVars>>

NextValidate == Validate

SpecValidate == InitValidate /\ [][NextValidate]_vars

(***************************************************************************)
(* SpecBot: bot_generation.py, generate_bot_ships                           *)
(***************************************************************************)
max_placement_attempts == 100

\* the random draws <<horizontal, row, col>> the model takes for the ship at
\* each place of SHIP_SIZES: those of the reference fleet, and draws that
\* overlap, touch, lie two apart from, or lie clear of the ships before
BotDraws ==
    << {<<TRUE, 0, 0>>},
       {<<TRUE, 3, 0>>, <<TRUE, 2, 0>>},
       {<<TRUE, 6, 0>>, <<FALSE, 6, 0>>},
       {<<TRUE, 3, 5>>},
       {<<TRUE, 6, 5>>, <<FALSE, 6, 5>>},
       {<<TRUE, 9, 0>>, <<TRUE, 9, 4>>},
       {<<TRUE, 0, 6>>, <<FALSE, 0, 3>>},
       {<<TRUE, 0, 9>>},
       {<<FALSE, 3, 9>>, <<TRUE, 1, 9>>},
       {<<TRUE, 6, 9>>, <<FALSE, 9, 9>>} >>

\* the draws of BotDraws that random.choice and random.randint can yield for
\* a ship of ship_size
RandomDraws(size_idx, ship_size) ==
    {d \in BotDraws[size_idx] :
        IF d[1]
        THEN /\ d[2] \in 0..(BOARD_SIZE - 1)
             /\ d[3] \in 0..(BOARD_SIZE - ship_size)
        ELSE /\ d[2] \in 0..(BOARD_SIZE - ship_size)
             /\ d[3] \in 0..(BOARD_SIZE - 1)}

\* start and end of the ship a draw places
DrawnShip(d, ship_size) ==
    IF d[1]
    THEN <<<<d[2], d[3]>>, <<d[2], d[3] + ship_size - 1>>>>
    ELSE <<<<d[2], d[3]>>, <<d[2] + ship_size - 1, d[3]>>>>

\* the generator's own test of a candidate against the ships placed so far
CanPlace(cells, adjacent, all_cells, all_adjacent) ==
    /\ all_cells \cap Range(cells) = {}
    /\ all_adjacent \cap adjacent = {}

InitBot ==
    /\ BoardIdle
    /\ ValidateIdle
    /\ PlaceIdle
    /\ GameIdle
    /\ UtilIdle
    /\ \E m \in 0..MaxAttempts :
        gen = [pc |-> "for_attempt", max_attempts |-> m, attempt |-> 0,
               ships |-> <<>>, all_cells |-> {}, all_adjacent |-> {},
               valid |-> TRUE, size_idx |-> 1, placed |-> FALSE,
               attempts |-> 0, start |-> <<0, 0>>, end |-> <<0, 0>>]

\* the head of "for attempt in range(max_attempts)", and the RuntimeError
\* after the loop
StartAttempt ==
    /\ gen.pc = "for_attempt"
    /\ gen' = IF gen.attempt < gen.max_attempts
              THEN [gen EXCEPT !.pc = "placing", !.ships = <<>>,
                               !.all_cells = {}, !.all_adjacent = {},
                               !.valid = TRUE, !.size_idx = 1,
                               !.placed = FALSE, !.attempts = 0]
              ELSE [gen EXCEPT !.pc = "GenerationExhaustedError"]
    /\ UNCHANGED <<boardVars, validateVars, placeVars, gameVars, utilVars>>

\* one iteration of "while not placed and attempts < max_placement_attempts"
TryPlacement ==
    /\ gen.pc = "placing"
    /\ ~gen.placed
    /\ gen.attempts < max_placement_attempts
    /\ \E d \in RandomDraws(gen.size_idx, SHIP_SIZES[gen.size_idx]) :
        LET ship == DrawnShip(d, SHIP_SIZES[gen.size_idx])
            cells == get_ship_cells(ship[1], ship[2]).cells
            adjacent == get_adjacent_cells(cells)
        IN  gen' = IF CanPlace(cells, adjacent, gen.all_cells, gen.all_adjacent)
                   THEN [gen EXCEPT !.attempts = @ + 1,
                                    !.start = ship[1], !.end = ship[2],
                                    !.ships = Append(@, ship),
                                    !.all_cells = @ \cup Range(cells),
                                    !.all_adjacent = @ \cup adjacent,
                                    !.placed = TRUE]
                   ELSE [gen EXCEPT !.attempts = @ + 1,
                                    !.start = ship[1], !.end = ship[2]]
    /\ UNCHANGED <<boardVars, validateVars, placeVars, gameVars, utilVars>>

\* the while loop is left with the ship placed: the next ship_size, or the
\* end of the for loop over SHIP_SIZES
NextSize ==
    /\ gen.pc = "placing"
    /\ gen.placed
    /\ gen' = IF gen.size_idx < Len(SHIP_SIZES)
              THEN [gen EXCEPT !.size_idx = @ + 1, !.placed = FALSE,
                               !.attempts = 0]
              ELSE [gen EXCEPT !.pc = "end_of_sizes"]
    /\ UNCHANGED <<boardVars, validateVars, placeVars, gameVars, utilVars>>

\* the mutant of GiveUpSize: the size that ran out of tries is tried afresh
GiveUpSize_tries_again ==
    /\ gen.pc = "placing"
    /\ ~gen.placed
    /\ gen.attempts >= max_placement_attempts
    /\ gen' = [gen EXCEPT !.attempts = 0]
    /\ UNCHANGED <<boardVars, validateVars, placeVars, gameVars, utilVars>>

\* the while loop is left without the ship placed: valid = False; break
GiveUpSize ==
    /\ gen.pc = "placing"
    /\ ~gen.placed
    /\ gen.attempts >= max_placement_attempts
    /\ gen' = [gen EXCEPT !.valid = FALSE, !.pc = "end_of_sizes"]
    /\ UNCHANGED <<boardVars, validateVars, placeVars, gameVars, utilVars>>

\* the mutant of EndOfSizes: the fleet is returned whatever valid says, and
\* unvalidated
EndOfSizes_unchecked ==
    /\ gen.pc = "end_of_sizes"
    /\ gen' = [gen EXCEPT !.pc = "returned"]
    /\ UNCHANGED <<boardVars, validateVars, placeVars, gameVars, utilVars>>

\* "if valid:" after the for loop over SHIP_SIZES: the fleet is returned when
\* it passes the final validation, otherwise the next attempt begins
EndOfSizes ==
    /\ gen.pc = "end_of_sizes"
    /\ gen' = IF gen.valid /\ validate_ship_placement(gen.ships, TRUE) = "ok"
              THEN [gen EXCEPT !.pc = "returned"]
              ELSE [gen EXCEPT !.pc = "for_attempt", !.attempt = @ + 1]
    /\ UNCHANGED <<boardVars, validateVars, placeVars, gameVars, utilVars>>

NextBot ==
    \/ StartAttempt
    \/ TryPlacement
    \/ NextSize
    \/ GiveUpSize
    \/ EndOfSizes

SpecBot == InitBot /\ [][NextBot]_vars

\* the step "if valid:" takes, whichever way the final validation goes
EndOfSizesStep ==
    /\ gen.pc = "end_of_sizes"
    /\ gen' \in {[gen EXCEPT !.pc = "returned"],
                 [gen EXCEPT !.pc = "for_attempt", !.attempt = @ + 1]}
    /\ UNCHANGED <<boardVars, validateVars, placeVars, gameVars, utilVars>>

\* generate_bot_ships is sequential code: from each place it takes its next
\* step
SpecBotFair ==
    /\ SpecBot
    /\ WF_vars(StartAttempt)
    /\ WF_vars(TryPlacement)
    /\ WF_vars(NextSize)
    /\ WF_vars(GiveUpSize)
    /\ WF_vars(EndOfSizesStep)

(***************************************************************************)
(* SpecPlace: ship_input.py, get_player_ships                               *)
(***************************************************************************)
\* a line is the list of its words, user_input.split()
QuitLine == << <<"q", "u", "i", "t">> >>
LineOf(ship) ==
    <<format_coordinates(ship[1][1], ship[1][2]),
      format_coordinates(ship[2][1], ship[2][2])>>

\* the lines the model enters at the prompt for ship k: the ship of the
\* reference fleet, the ships of AltShips, quit, a line of one word and a line
\* with a row that does not exist
PlayerLines(k) ==
    {LineOf(ReferenceFleet[k])}
    \cup {LineOf(a) : a \in AltShips[k]}
    \cup {QuitLine, << <<"A", "1">> >>, << <<"K", "1">>, <<"K", "2">> >>}

\* the mutant of ProcessLine: a ship the validator refuses is counted as
\* placed
ProcessLine_counts_refused(pl, line) ==
    LET start == parse_coordinates(line[1])
        end == parse_coordinates(line[2])
        ship == <<<<start.row, start.col>>, <<end.row, end.col>>>>
        sc == get_ship_cells(ship[1], ship[2])
        ship_size == Len(sc.cells)
        current_sizes ==
            [i \in DOMAIN pl.ships |->
                Len(get_ship_cells(pl.ships[i][1], pl.ships[i][2]).cells)]
        appended == Append(pl.ships, ship)
        validated ==
            validate_ship_placement(appended, Len(appended) = Len(SHIP_SIZES))
        kept(outcome) == [place |-> pl, outcome |-> outcome, ship |-> <<>>]
    IN  IF Len(line) = 1 /\ lower(line[1]) = QuitLine[1]
        THEN [place |-> [pl EXCEPT !.pc = "exit"], outcome |-> "quit",
              ship |-> <<>>]
        ELSE IF Len(line) # 2 THEN kept("invalid_format")
        ELSE IF ~start.ok \/ ~end.ok THEN kept("FormatError")
        ELSE IF ~sc.ok THEN kept("GeometryError")
        ELSE IF ship_size \notin Range(SHIP_SIZES) THEN kept("invalid_size")
        ELSE IF count(current_sizes, ship_size) >= count(SHIP_SIZES, ship_size)
        THEN kept("size_taken")
        ELSE IF validated # "ok"
        THEN [place |-> [pl EXCEPT !.ships = appended,
                                   !.ship_count = @ + 1],
              outcome |-> validated, ship |-> ship]
        ELSE [place |-> [pl EXCEPT !.ships = appended,
                                   !.ship_count = @ + 1,
                                   !.accepted = Append(@, ship)],
              outcome |-> "placed", ship |-> ship]

\* the body of the while loop for one line: the locals after it, what became
\* of the line, and the ship it named
ProcessLine(pl, line) ==
    LET start == parse_coordinates(line[1])
        end == parse_coordinates(line[2])
        ship == <<<<start.row, start.col>>, <<end.row, end.col>>>>
        sc == get_ship_cells(ship[1], ship[2])
        ship_size == Len(sc.cells)
        current_sizes ==
            [i \in DOMAIN pl.ships |->
                Len(get_ship_cells(pl.ships[i][1], pl.ships[i][2]).cells)]
        appended == Append(pl.ships, ship)
        validated ==
            validate_ship_placement(appended, Len(appended) = Len(SHIP_SIZES))
        kept(outcome) == [place |-> pl, outcome |-> outcome, ship |-> <<>>]
    IN  IF Len(line) = 1 /\ lower(line[1]) = QuitLine[1]
        THEN [place |-> [pl EXCEPT !.pc = "exit"], outcome |-> "quit",
              ship |-> <<>>]
        ELSE IF Len(line) # 2 THEN kept("invalid_format")
        ELSE IF ~start.ok \/ ~end.ok THEN kept("FormatError")
        ELSE IF ~sc.ok THEN kept("GeometryError")
        ELSE IF ship_size \notin Range(SHIP_SIZES) THEN kept("invalid_size")
        ELSE IF count(current_sizes, ship_size) >= count(SHIP_SIZES, ship_size)
        THEN kept("size_taken")
        ELSE IF validated # "ok"
        THEN [place |-> [pl EXCEPT !.ships = appended],
              outcome |-> validated, ship |-> ship]
        ELSE [place |-> [pl EXCEPT !.ships = appended,
                                   !.ship_count = @ + 1,
                                   !.accepted = Append(@, ship)],
              outcome |-> "placed", ship |-> ship]

InitPlace ==
    /\ BoardIdle
    /\ ValidateIdle
    /\ BotIdle
    /\ GameIdle
    /\ UtilIdle
    /\ place = [pc |-> "prompt", ships |-> <<>>, ship_count |-> 0,
                accepted |-> <<>>]
    /\ last_line = [outcome |-> "none", ship |-> <<>>]

\* one pass of "while ship_count < total_ships": a line is read and handled
EnterLine ==
    /\ place.pc = "prompt"
    /\ place.ship_count < Len(SHIP_SIZES)
    /\ Len(place.ships) - place.ship_count < MaxRejected
    /\ \E line \in PlayerLines(place.ship_count + 1) :
        LET r == ProcessLine(place, line)
        IN  /\ place' = r.place
            /\ last_line' = [outcome |-> r.outcome, ship |-> r.ship]
    /\ UNCHANGED <<boardVars, validateVars, botVars, gameVars, utilVars>>

\* the while loop ends: return ships
ReturnShips ==
    /\ place.pc = "prompt"
    /\ place.ship_count >= Len(SHIP_SIZES)
    /\ place' = [place EXCEPT !.pc = "returned"]
    /\ UNCHANGED last_line
    /\ UNCHANGED <<boardVars, validateVars, botVars, gameVars, utilVars>>

NextPlace ==
    \/ EnterLine
    \/ ReturnShips

SpecPlace == InitPlace /\ [][NextPlace]_vars

(***************************************************************************)
(* SpecGame: gameplay.py, play_game                                         *)
(***************************************************************************)
\* the fleets of the two boards: ships the shots of the game can sink
PlayerFleets ==
    {f \in { << <<<<0, 0>>, <<0, 0>>>> >>,
             << <<<<0, 0>>, <<1, 0>>>> >> } :
        validate_ship_placement(f, FALSE) = "ok"}
BotFleets ==
    {f \in { << <<<<0, 0>>, <<0, 0>>>> >>,
             << <<<<0, 1>>, <<1, 1>>>> >>,
             << <<<<0, 0>>, <<0, 0>>>>, <<<<0, 2>>, <<0, 2>>>> >> } :
        validate_ship_placement(f, FALSE) = "ok"}

\* what the player types: the names of the cells of the window, a lower-case
\* name, and texts parse_coordinates refuses
PlayerInputs ==
    {format_coordinates(ShotCell(k)[1], ShotCell(k)[2]) :
        k \in 0..(PlayerWindow - 1)}
    \cup {<<"b", "1">>, <<" ", "A", "2">>, <<"A">>, <<"K", "1">>,
          <<"A", "0">>, <<"A", "1", "1">>, <<"A", "x">>}

\* the cells random.randint draws for the bot
BotShots == {ShotCell(k) : k \in 0..(BotWindow - 1)}

\* GameState.log_move
log_move(gs, turn, player_coord, player_hit, bot_coord, bot_hit) ==
    [gs EXCEPT !.move_history =
        Append(@, [turn |-> turn,
                   player_move |-> player_coord,
                   player_hit |-> IF player_hit THEN "hit" ELSE "miss",
                   bot_move |-> bot_coord,
                   bot_hit |-> IF bot_hit THEN "hit" ELSE "miss"])]

\* play_game(player_board, bot_board) up to the while loop
InitGame ==
    /\ BoardIdle
    /\ ValidateIdle
    /\ BotIdle
    /\ PlaceIdle
    /\ UtilIdle
    /\ player_board \in {GameBoard(f) : f \in PlayerFleets}
    /\ bot_board \in {GameBoard(f) : f \in BotFleets}
    /\ game_state = [turn |-> 0, move_history |-> <<>>]
    /\ game = [pc |-> "round_start", winner |-> "none", player_hit |-> FALSE,
               player_move_str |-> <<>>, bot_hit |-> FALSE,
               bot_move_str |-> <<>>,
               last_try |-> [actor |-> "none", outcome |-> "none"]]

\* the head of the round: game_state.turn += 1
StartRound ==
    /\ game.pc = "round_start"
    /\ game_state' = [game_state EXCEPT !.turn = @ + 1]
    /\ game' = [game EXCEPT !.pc = "player_move"]
    /\ UNCHANGED <<player_board, bot_board>>
    /\ UNCHANGED <<boardVars, validateVars, botVars, placeVars, utilVars>>

\* one line typed at the player's prompt: get_player_move re-prompts on a
\* text parse_coordinates refuses, the loop of play_game on a refused shot
PlayerAttempt ==
    /\ game.pc = "player_move"
    /\ \E text \in PlayerInputs :
        LET coord == parse_coordinates(upper(strip(text)))
            r == record_shot(bot_board, coord.row, coord.col)
        IN  IF ~coord.ok
            THEN /\ game' = [game EXCEPT !.last_try =
                        [actor |-> "player", outcome |-> "FormatError"]]
                 /\ UNCHANGED bot_board
            ELSE IF r.result = "AlreadyShotError"
            THEN /\ game' = [game EXCEPT !.last_try =
                        [actor |-> "player", outcome |-> "AlreadyShotError"]]
                 /\ UNCHANGED bot_board
            ELSE /\ bot_board' = r.board
                 /\ game' = [game EXCEPT
                        !.player_hit = (r.result = "hit"),
                        !.player_move_str =
                            format_coordinates(coord.row, coord.col),
                        !.last_try = [actor |-> "player", outcome |-> "shot"],
                        !.pc = "player_check"]
    /\ UNCHANGED <<player_board, game_state>>
    /\ UNCHANGED <<boardVars, validateVars, botVars, placeVars, utilVars>>

\* the mutant of PlayerCheck: the win test after the player's shot is missing
PlayerCheck_no_win_test ==
    /\ game.pc = "player_check"
    /\ game' = [game EXCEPT !.pc = "bot_move"]
    /\ UNCHANGED <<player_board, bot_board, game_state>>
    /\ UNCHANGED <<boardVars, validateVars, botVars, placeVars, utilVars>>

\* the mutant of PlayerCheck: without a win the player is to shoot again
PlayerCheck_player_again ==
    /\ game.pc = "player_check"
    /\ IF ~has_ships_remaining(bot_board)
       THEN /\ game_state' = log_move(game_state, game_state.turn,
                                      game.player_move_str, game.player_hit,
                                      <<>>, FALSE)
            /\ game' = [game EXCEPT !.pc = "done", !.winner = "player"]
       ELSE /\ game' = [game EXCEPT !.pc = "player_move"]
            /\ UNCHANGED game_state
    /\ UNCHANGED <<player_board, bot_board>>
    /\ UNCHANGED <<boardVars, validateVars, botVars, placeVars, utilVars>>

\* "if not bot_board.has_ships_remaining():" after the player's shot
PlayerCheck ==
    /\ game.pc = "player_check"
    /\ IF ~has_ships_remaining(bot_board)
       THEN /\ game_state' = log_move(game_state, game_state.turn,
                                      game.player_move_str, game.player_hit,
                                      <<>>, FALSE)
            /\ game' = [game EXCEPT !.pc = "done", !.winner = "player"]
       ELSE /\ game' = [game EXCEPT !.pc = "bot_move"]
            /\ UNCHANGED game_state
    /\ UNCHANGED <<player_board, bot_board>>
    /\ UNCHANGED <<boardVars, validateVars, botVars, placeVars, utilVars>>

\* the mutant of BotAttempt: a refused random cell ends the bot's turn
BotAttempt_refusal_ends_turn ==
    /\ game.pc = "bot_move"
    /\ \E cell \in BotShots :
        LET r == record_shot(player_board, cell[1], cell[2])
        IN  IF r.result = "AlreadyShotError"
            THEN /\ game' = [game EXCEPT !.last_try =
                        [actor |-> "bot", outcome |-> "AlreadyShotError"],
                        !.pc = "bot_check"]
                 /\ UNCHANGED player_board
            ELSE /\ player_board' = r.board
                 /\ game' = [game EXCEPT
                        !.bot_hit = (r.result = "hit"),
                        !.bot_move_str = format_coordinates(cell[1], cell[2]),
                        !.last_try = [actor |-> "bot", outcome |-> "shot"],
                        !.pc = "bot_check"]
    /\ UNCHANGED <<bot_board, game_state>>
    /\ UNCHANGED <<boardVars, validateVars, botVars, placeVars, utilVars>>

\* one iteration of the bot's loop: a random cell, shot unless refused
BotAttempt ==
    /\ game.pc = "bot_move"
    /\ \E cell \in BotShots :
        LET r == record_shot(player_board, cell[1], cell[2])
        IN  IF r.result = "AlreadyShotError"
            THEN /\ game' = [game EXCEPT !.last_try =
                        [actor |-> "bot", outcome |-> "AlreadyShotError"]]
                 /\ UNCHANGED player_board
            ELSE /\ player_board' = r.board
                 /\ game' = [game EXCEPT
                        !.bot_hit = (r.result = "hit"),
                        !.bot_move_str = format_coordinates(cell[1], cell[2]),
                        !.last_try = [actor |-> "bot", outcome |-> "shot"],
                        !.pc = "bot_check"]
    /\ UNCHANGED <<bot_board, game_state>>
    /\ UNCHANGED <<boardVars, validateVars, botVars, placeVars, utilVars>>

\* the mutant of BotCheck: the lost game's last round is not logged
BotCheck_loss_not_logged ==
    /\ game.pc = "bot_check"
    /\ IF ~has_ships_remaining(player_board)
       THEN /\ game' = [game EXCEPT !.pc = "done", !.winner = "bot"]
            /\ UNCHANGED game_state
       ELSE /\ game' = [game EXCEPT !.pc = "round_start"]
            /\ game_state' = log_move(game_state, game_state.turn,
                                      game.player_move_str, game.player_hit,
                                      game.bot_move_str, game.bot_hit)
    /\ UNCHANGED <<player_board, bot_board>>
    /\ UNCHANGED <<boardVars, validateVars, botVars, placeVars, utilVars>>

\* the mutant of BotCheck: the test of the player's board is missing, the
\* round is logged and the next one begins
BotCheck_no_loss_test ==
    /\ game.pc = "bot_check"
    /\ game_state' = log_move(game_state, game_state.turn,
                              game.player_move_str, game.player_hit,
                              game.bot_move_str, game.bot_hit)
    /\ game' = [game EXCEPT !.pc = "round_start"]
    /\ UNCHANGED <<player_board, bot_board>>
    /\ UNCHANGED <<boardVars, validateVars, botVars, placeVars, utilVars>>

\* "if not player_board.has_ships_remaining():" after the bot's shot, and the
\* log_move that ends the round
BotCheck ==
    /\ game.pc = "bot_check"
    /\ game_state' = log_move(game_state, game_state.turn,
                              game.player_move_str, game.player_hit,
                              game.bot_move_str, game.bot_hit)
    /\ game' = IF ~has_ships_remaining(player_board)
               THEN [game EXCEPT !.pc = "done", !.winner = "bot"]
               ELSE [game EXCEPT !.pc = "round_start"]
    /\ UNCHANGED <<player_board, bot_board>>
    /\ UNCHANGED <<boardVars, validateVars, botVars, placeVars, utilVars>>

NextGame ==
    \/ StartRound
    \/ PlayerAttempt
    \/ PlayerCheck
    \/ BotAttempt
    \/ BotCheck

SpecGame == InitGame /\ [][NextGame]_vars

\* the cells the player's inputs name
PlayerCells ==
    {<<c.row, c.col>> :
        c \in {d \in {parse_coordinates(upper(strip(text))) :
                         text \in PlayerInputs} : d.ok}}

\* the steps of PlayerAttempt that are shots (the text names a cell not yet
\* shot), written over the cells named
PlayerShot ==
    /\ game.pc = "player_move"
    /\ \E cell \in PlayerCells :
        LET r == record_shot(bot_board, cell[1], cell[2])
        IN  /\ r.result # "AlreadyShotError"
            /\ bot_board' = r.board
            /\ game' = [game EXCEPT
                   !.player_hit = (r.result = "hit"),
                   !.player_move_str = format_coordinates(cell[1], cell[2]),
                   !.last_try = [actor |-> "player", outcome |-> "shot"],
                   !.pc = "player_check"]
    /\ UNCHANGED <<player_board, game_state>>
    /\ UNCHANGED <<boardVars, validateVars, botVars, placeVars, utilVars>>
\* the bot's attempt that is a shot: the random cell is not yet shot
BotShot == BotAttempt /\ game'.pc = "bot_check"

\* play_game runs on by itself between the inputs; the player eventually
\* enters a cell not yet shot and the random draw eventually yields one
SpecGameFair ==
    /\ SpecGame
    /\ WF_vars(StartRound)
    /\ WF_vars(PlayerCheck)
    /\ WF_vars(BotCheck)
    /\ WF_vars(PlayerShot)
    /\ WF_vars(BotShot)

(***************************************************************************)
(* SpecCodec: utils.py, parse_coordinates and format_coordinates            *)
(***************************************************************************)
\* the characters of the texts given to parse_coordinates: space, signs,
\* digits, a lower-case and an upper-case row letter, a letter past J
TextAlphabet == {" ", "+", "-", "0", "1", "5", "a", "J", "K"}
CoordTexts == UNION {[1..n -> TextAlphabet] : n \in 0..MaxTextLen}
\* the cells given to format_coordinates
CoordCells == (0..(BOARD_SIZE - 1)) \X (0..(BOARD_SIZE - 1))

\* a text to parse and then format, or a cell to format and then parse
InitCodec ==
    /\ BoardIdle
    /\ ValidateIdle
    /\ BotIdle
    /\ PlaceIdle
    /\ GameIdle
    /\ CellsIdle
    /\ \/ \E s \in CoordTexts :
            codec = [pc |-> "to_parse", first |-> "parse", in_text |-> s,
                     in_cell |-> <<0, 0>>, text |-> s, cell |-> <<0, 0>>]
       \/ \E c \in CoordCells :
            codec = [pc |-> "to_format", first |-> "format", in_text |-> <<>>,
                     in_cell |-> c, text |-> <<>>, cell |-> c]

\* the call parse_coordinates(text)
Parse ==
    /\ codec.pc = "to_parse"
    /\ LET r == parse_coordinates(codec.text)
       IN  codec' = IF r.ok
                    THEN [codec EXCEPT
                            !.cell = <<r.row, r.col>>,
                            !.pc = IF codec.first = "parse"
                                   THEN "to_format" ELSE "done"]
                    ELSE [codec EXCEPT !.pc = "FormatError"]
    /\ UNCHANGED <<boardVars, validateVars, botVars, placeVars, gameVars,
                   cells_call>>

\* the call format_coordinates(row, col)
Format ==
    /\ codec.pc = "to_format"
    /\ codec' = [codec EXCEPT
                    !.text = format_coordinates(codec.cell[1], codec.cell[2]),
                    !.pc = IF codec.first = "format"
                           THEN "to_parse" ELSE "done"]
    /\ UNCHANGED <<boardVars, validateVars, botVars, placeVars, gameVars,
                   cells_call>>

NextCodec ==
    \/ Parse
    \/ Format

SpecCodec == InitCodec /\ [][NextCodec]_vars

(***************************************************************************)
(* SpecCells: utils.py, get_ship_cells                                      *)
(***************************************************************************)
\* any two cells of the board
InitCells ==
    /\ BoardIdle
    /\ ValidateIdle
    /\ BotIdle
    /\ PlaceIdle
    /\ GameIdle
    /\ CodecIdle
    /\ \E start \in CoordCells, end \in CoordCells :
            cells_call = [pc |-> "call", start |-> start, end |-> end,
                          ok |-> TRUE, cells |-> <<>>]

\* the call get_ship_cells(start, end)
GetShipCells ==
    /\ cells_call.pc = "call"
    /\ LET r == get_ship_cells(cells_call.start, cells_call.end)
       IN  cells_call' = [cells_call EXCEPT
                            !.pc = IF r.ok THEN "returned"
                                   ELSE "GeometryError",
                            !.ok = r.ok,
                            !.cells = r.cells]
    /\ UNCHANGED <<boardVars, validateVars, botVars, placeVars, gameVars,
                   codec>>

NextCells == GetShipCells

SpecCells == InitCells /\ [][NextCells]_vars

(***************************************************************************)
(* Geometry as the claims state it, independent of the helpers above       *)
(***************************************************************************)
Abs(x) == IF x < 0 THEN -x ELSE x
AllCells == (0..(BOARD_SIZE - 1)) \X (0..(BOARD_SIZE - 1))
\* two distinct cells within 8-directional distance 1
Touching(c, d) == c # d /\ Abs(c[1] - d[1]) <= 1 /\ Abs(c[2] - d[2]) <= 1
StraightLine(ship) == ship[1][1] = ship[2][1] \/ ship[1][2] = ship[2][2]
\* the cells on the straight run between the ship's two ends
CoveredCells(ship) ==
    IF StraightLine(ship)
    THEN (Min(ship[1][1], ship[2][1])..Max(ship[1][1], ship[2][1]))
            \X (Min(ship[1][2], ship[2][2])..Max(ship[1][2], ship[2][2]))
    ELSE {}
Covers(ship, c) == c \in CoveredCells(ship)
\* every cell of the ship is in hits
Sunk(b, ship) == CoveredCells(ship) \subseteq b.hits
\* the cells of b that record_shot refuses
ShotOrMarked(b) == b.hits \cup b.misses \cup b.destroyed_zones

(***************************************************************************)
(* Claims about the board (Spec)                                           *)
(***************************************************************************)
\* C1: hits, misses and destroyed_zones are pairwise disjoint in every
\* reachable board state.  The code violates it: a cell shot as a miss next
\* to a ship is added to destroyed_zones as well when that ship is sunk.
C1_PairwiseDisjoint ==
    /\ board.hits \cap board.misses = {}
    /\ board.hits \cap board.destroyed_zones = {}
    /\ board.misses \cap board.destroyed_zones = {}

\* C2: a record_shot call on a cell already in hits, misses or
\* destroyed_zones yields the already-shot error, and a call that yields the
\* error leaves hits, misses and destroyed_zones as they were.
C2_RejectedShotKeepsBoard ==
    [][/\ last_shot'.cell \in ShotOrMarked(board)
            => last_shot'.result = "AlreadyShotError"
       /\ last_shot'.result = "AlreadyShotError"
            => /\ last_shot'.cell \in ShotOrMarked(board)
               /\ board'.hits = board.hits
               /\ board'.misses = board.misses
               /\ board'.destroyed_zones = board.destroyed_zones]_vars

\* C2 witness: a shot at an auto-marked cell (never shot itself) was refused
C2_Witness ==
    /\ last_shot.result = "AlreadyShotError"
    /\ last_shot.cell \in board.destroyed_zones
    /\ last_shot.cell \notin board.misses

\* C3: for every ship whose cells are all in hits, every in-bounds
\* 8-neighbour of the ship that is not a cell of any ship is in
\* destroyed_zones, in every reachable state (so also right after the shot
\* that hit the last cell).
C3_SunkShipHaloMarked ==
    \A ship \in Range(board.ships) :
        Sunk(board, ship) =>
            \A c \in CoveredCells(ship) :
                \A n \in AllCells :
                    (/\ Touching(c, n)
                     /\ \A other \in Range(board.ships) : ~Covers(other, n))
                        => n \in board.destroyed_zones

\* C3 witness: the last shot hit the ship of size 2 at <<0,0>>..<<1,0>> and
\* sank it, while the other ship is still afloat
C3_Witness ==
    /\ Len(board.ships) = 2
    /\ last_shot.result = "hit"
    /\ Covers(board.ships[1], last_shot.cell)
    /\ Sunk(board, board.ships[1])
    /\ ~Sunk(board, board.ships[2])

\* C4: has_ships_remaining() is false exactly when every ship's cell set is
\* a subset of hits.
C4_RemainingIffSomeShipAfloat ==
    (~has_ships_remaining(board))
        <=> (\A ship \in Range(board.ships) : Sunk(board, ship))

\* C4 witness: the board with the single size-1 ship right after the shot that
\* hit it: no ship remains
C4_Witness ==
    /\ Len(board.ships) = 1
    /\ last_shot = [cell |-> <<0, 0>>, result |-> "hit"]
    /\ ~has_ships_remaining(board)

\* C16: a record_shot call on a cell not yet shot or marked yields hit
\* exactly when the cell is a cell of a ship, and miss otherwise; a miss adds
\* that one cell to misses and leaves hits and destroyed_zones as they were; a
\* hit that completes no ship adds that one cell to hits and leaves misses
\* and destroyed_zones as they were; no call removes a cell from hits, misses
\* or destroyed_zones.
C16_ShotFrame ==
    [][LET cell == last_shot'.cell
           result == last_shot'.result
       IN  /\ cell \notin ShotOrMarked(board) =>
                /\ result \in {"hit", "miss"}
                /\ result = "hit" <=>
                      \E ship \in Range(board.ships) : Covers(ship, cell)
           /\ result = "miss" =>
                /\ cell \notin board.misses
                /\ board'.misses = board.misses \cup {cell}
                /\ board'.hits = board.hits
                /\ board'.destroyed_zones = board.destroyed_zones
           /\ (/\ result = "hit"
               /\ \A ship \in Range(board.ships) :
                      Sunk(board', ship) => Sunk(board, ship)) =>
                /\ cell \notin board.hits
                /\ board'.hits = board.hits \cup {cell}
                /\ board'.misses = board.misses
                /\ board'.destroyed_zones = board.destroyed_zones
           /\ board.hits \subseteq board'.hits
           /\ board.misses \subseteq board'.misses
           /\ board.destroyed_zones \subseteq board'.destroyed_zones]_vars

\* C16 witness: after a miss at A2 the shot at A1 hit the ship A1-B1 without
\* sinking it: nothing is marked
C16_Witness ==
    /\ Len(board.ships) = 2
    /\ last_shot = [cell |-> <<0, 0>>, result |-> "hit"]
    /\ board.hits = {<<0, 0>>}
    /\ board.misses = {<<0, 1>>}
    /\ board.destroyed_zones = {}

\* C17: get_cell_state is "X" for a cell in hits, "O" for a cell in misses
\* or destroyed_zones, "." otherwise, and along record_shot calls the state
\* of a cell only moves from "." to "X" or from "." to "O": a cell that shows
\* "X" keeps showing "X", a cell that shows "O" keeps showing "O".
C17_CellStateTerminal ==
    /\ [](\A c \in AllCells :
            LET state == get_cell_state(board, c[1], c[2])
            IN  /\ state \in {"X", "O", "."}
                /\ state = "X" <=> c \in board.hits
                /\ state = "O" <=>
                      (c \notin board.hits
                       /\ c \in board.misses \cup board.destroyed_zones))
    /\ [][\A c \in AllCells :
            get_cell_state(board, c[1], c[2]) # "." =>
                get_cell_state(board', c[1], c[2])
                    = get_cell_state(board, c[1], c[2])]_vars

\* C17 witness: the single ship at A1 is sunk, A2 shows "O" without having
\* been shot, and a later shot at A1 was refused, A1 still showing "X"
C17_Witness ==
    /\ Len(board.ships) = 1
    /\ get_cell_state(board, 0, 0) = "X"
    /\ get_cell_state(board, 0, 1) = "O"
    /\ <<0, 1>> \notin board.misses
    /\ last_shot = [cell |-> <<0, 0>>, result |-> "AlreadyShotError"]

\* the cells of all the ships of a board
FleetCells(b) == UNION {CoveredCells(ship) : ship \in Range(b.ships)}
\* the cells of the board that are 8-neighbours of a cell of the ship and
\* not cells of the ship
Halo(ship) ==
    {n \in AllCells :
        /\ n \notin CoveredCells(ship)
        /\ \E c \in CoveredCells(ship) : Touching(c, n)}

\* C21: on a board built from a validated fleet, after any sequence of
\* record_shot calls, hits is a subset of the ships' cells and neither misses
\* nor destroyed_zones holds a cell of a ship; so a cell of a ship that is
\* not hit is not refused by record_shot, and a shot at it is a hit.
C21_ShipCellsStayShootable ==
    /\ board.hits \subseteq FleetCells(board)
    /\ board.misses \cap FleetCells(board) = {}
    /\ board.destroyed_zones \cap FleetCells(board) = {}
    /\ \A c \in FleetCells(board) \ board.hits :
          /\ c \notin ShotOrMarked(board)
          /\ record_shot(board, c[1], c[2]).result = "hit"

\* C21 witness: on the board of the full fleet the ship A1-A4 is sunk, its
\* halo is marked, and the other nine ships are afloat
C21_Witness ==
    /\ Len(board.ships) = 10
    /\ Sunk(board, board.ships[1])
    /\ board.destroyed_zones # {}
    /\ \A i \in 2..10 : ~Sunk(board, board.ships[i])

\* C22: in every reachable board state destroyed_zones is the union of the
\* halos of the ships whose cells are all in hits: each of its cells is an
\* 8-neighbour of such a ship, and it is empty while no ship is fully hit.
C22_ZonesAreHalosOfSunkShips ==
    /\ board.destroyed_zones
          = UNION {Halo(ship) : ship \in {t \in Range(board.ships) :
                                             Sunk(board, t)}}
    /\ \A n \in board.destroyed_zones :
          \E ship \in Range(board.ships) :
              /\ Sunk(board, ship)
              /\ \E c \in CoveredCells(ship) : Touching(c, n)
    /\ (\A ship \in Range(board.ships) : ~Sunk(board, ship)) =>
          board.destroyed_zones = {}

\* C22 witness: both ships of the two-ship board are sunk, the second by the
\* last shot, and the halos of both are marked
C22_Witness ==
    /\ Len(board.ships) = 2
    /\ Sunk(board, board.ships[1])
    /\ Sunk(board, board.ships[2])
    /\ last_shot.result = "hit"
    /\ Covers(board.ships[2], last_shot.cell)
    /\ Halo(board.ships[1]) \cup Halo(board.ships[2])
          = board.destroyed_zones

(***************************************************************************)
(* Claims about the validator (SpecValidate)                               *)
(***************************************************************************)
\* the number of cells of a straight-line ship
ShipLength(ship) ==
    Abs(ship[1][1] - ship[2][1]) + Abs(ship[1][2] - ship[2][2]) + 1
\* some cell of one ship is a cell of the other
ShipsShareCell(s, t) == CoveredCells(s) \cap CoveredCells(t) # {}
\* some cell of one ship is an 8-neighbour of a cell of the other
ShipsTouch(s, t) ==
    \E c \in CoveredCells(s) : \E d \in CoveredCells(t) : Touching(c, d)

\* C5: a sequence of ships accepted with final_check = TRUE has 10 ships, of
\* sizes 4, 3, 3, 2, 2, 2, 1, 1, 1, 1 in some order, and no two of its ships
\* share a cell or have cells within 8-directional distance 1.
C5_AcceptedFleetIsWellFormed ==
    (v_result = "ok" /\ v_final_check) =>
        /\ Len(v_ships) = 10
        /\ \A i \in DOMAIN v_ships : StraightLine(v_ships[i])
        /\ \A n \in 1..4 :
             Cardinality({i \in DOMAIN v_ships : ShipLength(v_ships[i]) = n})
                = 5 - n
        /\ \A i \in DOMAIN v_ships : \A j \in DOMAIN v_ships :
             i # j => /\ ~ShipsShareCell(v_ships[i], v_ships[j])
                      /\ ~ShipsTouch(v_ships[i], v_ships[j])

\* C5 witness: a fleet other than the reference fleet, with its size-4 ship
\* not in the first place, passed the final check
C5_Witness ==
    /\ v_result = "ok"
    /\ v_final_check
    /\ ShipLength(v_ships[1]) = 3
    /\ ShipLength(v_ships[2]) = 4

\* the scenario of ships two rows apart: A1-A4 with C1-C4 passes
ScenarioTwoRowsApart ==
    (/\ v_ships = << <<<<0, 0>>, <<0, 3>>>>, <<<<2, 0>>, <<2, 3>>>> >>
     /\ v_result # "pending")
        => v_result = "ok"

\* C6: for two straight-line ships of allowed size that share no cell, the
\* validator with final_check = FALSE raises the adjacency error exactly when
\* a cell of one is an 8-neighbour of a cell of the other, and accepts the
\* pair otherwise.
C6_PairAdjacencyExact ==
    (/\ v_result # "pending"
     /\ ~v_final_check
     /\ Len(v_ships) = 2
     /\ \A i \in 1..2 : StraightLine(v_ships[i])
                        /\ ShipLength(v_ships[i]) \in 1..4
     /\ ~ShipsShareCell(v_ships[1], v_ships[2]))
        => /\ IF ShipsTouch(v_ships[1], v_ships[2])
              THEN v_result = "AdjacencyError"
              ELSE v_result = "ok"
           /\ ScenarioTwoRowsApart

\* C6 witness: A1-A4 with B1-B4 was rejected for adjacency
C6_Witness ==
    /\ v_ships = << <<<<0, 0>>, <<0, 3>>>>, <<<<1, 0>>, <<1, 3>>>> >>
    /\ ~v_final_check
    /\ v_result = "AdjacencyError"

(***************************************************************************)
(* Claims about the fleet generator (SpecBot)                              *)
(***************************************************************************)
\* C7: whenever generate_bot_ships returns a fleet, the fleet passes
\* validate_ship_placement with final_check = TRUE; it is never partial,
\* overlapping or touching.
C7_ReturnedFleetIsValid ==
    gen.pc = "returned" =>
        /\ validate_ship_placement(gen.ships, TRUE) = "ok"
        /\ Len(gen.ships) = Len(SHIP_SIZES)
        /\ \A i \in DOMAIN gen.ships : \A j \in DOMAIN gen.ships :
             i # j => /\ ~ShipsShareCell(gen.ships[i], gen.ships[j])
                      /\ ~ShipsTouch(gen.ships[i], gen.ships[j])

\* C7 witness: a fleet is returned by the second fleet attempt, the first one
\* having been abandoned
C7_Witness ==
    /\ gen.pc = "returned"
    /\ gen.attempt = 1
    /\ Len(gen.ships) = 10

\* C18: within one fleet attempt generate_bot_ships accepts a candidate
\* exactly when it neither overlaps nor touches (8-directionally) a ship
\* already placed in that attempt, that is exactly when the validator accepts
\* the ships placed with the candidate added.  The code violates it: it
\* refuses every candidate whose halo meets the halo of a placed ship, so a
\* candidate one free cell away from a placed ship is refused.
C18_AcceptanceIsValidatorRule ==
    [][(gen.pc = "placing" /\ gen'.attempts = gen.attempts + 1) =>
        LET candidate == <<gen'.start, gen'.end>>
        IN  /\ gen'.placed <=>
                  \A i \in DOMAIN gen.ships :
                      /\ ~ShipsShareCell(gen.ships[i], candidate)
                      /\ ~ShipsTouch(gen.ships[i], candidate)
            /\ gen'.placed <=>
                  validate_ship_placement(Append(gen.ships, candidate), FALSE)
                      = "ok"]_vars

\* C19: generate_bot_ships always terminates: a ship size gets at most 100
\* placement tries in a fleet attempt; a size that has used its 100 tries
\* without being placed abandons the fleet attempt, and the next attempt
\* starts from an empty fleet; after max_attempts fleet attempts without a
\* fleet the call fails with the generation-exhausted error, and only then;
\* every call ends by returning a fleet or with that error.
C19_GeneratorTerminates ==
    /\ [](/\ gen.attempts \in 0..100
          /\ gen.attempt \in 0..gen.max_attempts
          /\ gen.pc = "GenerationExhaustedError" =>
                gen.attempt = gen.max_attempts
          /\ gen.pc \in {"placing", "end_of_sizes", "returned"} =>
                gen.attempt < gen.max_attempts)
    /\ [][/\ gen'.attempts > gen.attempts =>
                /\ gen'.attempts = gen.attempts + 1
                /\ gen.attempts < 100
                /\ gen'.attempt = gen.attempt
                /\ gen'.size_idx = gen.size_idx
          /\ (gen.pc = "placing" /\ ~gen.placed /\ gen.attempts = 100) =>
                /\ gen'.pc = "end_of_sizes"
                /\ ~gen'.valid
          /\ (gen.pc = "end_of_sizes" /\ ~gen.valid) =>
                /\ gen'.pc = "for_attempt"
                /\ gen'.attempt = gen.attempt + 1
          /\ gen.pc = "for_attempt" =>
                IF gen.attempt < gen.max_attempts
                THEN /\ gen'.pc = "placing"
                     /\ gen'.ships = <<>>
                     /\ gen'.all_cells = {}
                     /\ gen'.all_adjacent = {}
                     /\ gen'.size_idx = 1
                     /\ gen'.attempts = 0
                ELSE gen'.pc = "GenerationExhaustedError"
          /\ gen'.attempt \in {gen.attempt, gen.attempt + 1}
          /\ gen.pc \in {"returned", "GenerationExhaustedError"} =>
                gen' = gen]_vars
    /\ <>(gen.pc \in {"returned", "GenerationExhaustedError"})

\* C19 witness: called with max_attempts = 2, both fleet attempts were
\* abandoned at a size that used its 100 tries, and the call failed
C19_Witness ==
    /\ gen.pc = "GenerationExhaustedError"
    /\ gen.max_attempts = 2
    /\ gen.attempt = 2
    /\ ~gen.valid
    /\ gen.attempts = 100

(***************************************************************************)
(* Claims about the game loop (SpecGame)                                   *)
(***************************************************************************)
\* the cells of a board that a shot was made at (destroyed_zones are marked,
\* not shot)
CellsShot(b) == b.hits \cup b.misses
AllSunk(b) == \A ship \in Range(b.ships) : Sunk(b, ship)

\* C8: the win condition is checked after each successful shot, the player's
\* first: once the player's shot leaves the bot board without ships the game
\* stops with winner "player" and the bot has not shot in that round; the
\* winner is "bot" only right after a bot shot that leaves the player board
\* without ships; no shot is made once there is a winner.
C8_WinCheckedAfterEachShot ==
    /\ [](/\ AllSunk(bot_board) =>
                \/ game.pc = "player_check" /\ game.winner = "none"
                \/ game.pc = "done" /\ game.winner = "player"
          /\ AllSunk(player_board) =>
                \/ game.pc = "bot_check" /\ game.winner = "none"
                \/ game.pc = "done" /\ game.winner = "bot"
          /\ game.winner = "player" =>
                /\ AllSunk(bot_board)
                /\ Cardinality(CellsShot(bot_board)) = game_state.turn
                /\ Cardinality(CellsShot(player_board)) = game_state.turn - 1
          /\ game.winner = "bot" =>
                /\ AllSunk(player_board) /\ ~AllSunk(bot_board)
                /\ Cardinality(CellsShot(bot_board)) = game_state.turn
                /\ Cardinality(CellsShot(player_board)) = game_state.turn
          /\ game.winner \in {"none", "player", "bot"}
          /\ game.winner # "none" <=> game.pc = "done")
    /\ [][/\ game.winner # "none" =>
                /\ player_board' = player_board
                /\ bot_board' = bot_board
                /\ game'.winner = game.winner
          /\ (game.winner = "none" /\ game'.winner = "player") =>
                /\ game.pc = "player_check"
                /\ game.last_try = [actor |-> "player", outcome |-> "shot"]
          /\ (game.winner = "none" /\ game'.winner = "bot") =>
                /\ game.pc = "bot_check"
                /\ game.last_try = [actor |-> "bot", outcome |-> "shot"]]_vars

\* C8 witness: the player won in the second round, in which the bot did not
\* shoot
C8_Witness ==
    /\ game.winner = "player"
    /\ game_state.turn = 2
    /\ Cardinality(CellsShot(player_board)) = 1

\* C9: the turn counter starts at 0 and grows by exactly 1 at the start of
\* each round, before any shot of the round; the move log is append-only with
\* one entry per round, the terminal round included: after round k is logged
\* it has k entries with turn fields 1..k, and at the end of the game its
\* length is the turn counter.
C9_TurnCounterAndLog ==
    /\ [](/\ \A i \in DOMAIN game_state.move_history :
                game_state.move_history[i].turn = i
          /\ game.pc \in {"round_start", "done"} =>
                Len(game_state.move_history) = game_state.turn
          /\ game.pc \in {"player_move", "player_check", "bot_move",
                          "bot_check"} =>
                Len(game_state.move_history) = game_state.turn - 1
          /\ game.pc = "player_move" =>
                /\ Cardinality(CellsShot(bot_board)) = game_state.turn - 1
                /\ Cardinality(CellsShot(player_board)) = game_state.turn - 1
          /\ (CellsShot(bot_board) = {} /\ game.pc = "round_start") =>
                game_state.turn = 0)
    /\ [][/\ \/ game_state'.turn = game_state.turn
             \/ /\ game_state'.turn = game_state.turn + 1
                /\ game.pc = "round_start" /\ game'.pc = "player_move"
                /\ player_board' = player_board /\ bot_board' = bot_board
          /\ (game.pc = "round_start" /\ game'.pc # "round_start") =>
                game_state'.turn = game_state.turn + 1
          /\ \/ game_state'.move_history = game_state.move_history
             \/ /\ Len(game_state'.move_history)
                      = Len(game_state.move_history) + 1
                /\ SubSeq(game_state'.move_history, 1,
                          Len(game_state.move_history))
                      = game_state.move_history]_vars

\* C9 witness: a game lost in its second round, with two log entries
C9_Witness ==
    /\ game.winner = "bot"
    /\ game_state.turn = 2
    /\ Len(game_state.move_history) = 2
    /\ game_state.move_history[2].turn = 2

\* C11: a rejected shot attempt (a text parse_coordinates refuses, a cell
\* record_shot refuses, for the player; a random cell record_shot refuses, for
\* the bot) changes neither board, nor the turn counter, nor the move log, and
\* leaves the same actor to attempt again; the turn passes on only with a
\* shot of the actor whose turn it is, which adds one cell to the cells shot
\* at the other's board.
C11_RejectedAttemptKeepsState ==
    /\ [](/\ game.pc \in {"player_check", "bot_move", "bot_check"} =>
                Cardinality(CellsShot(bot_board)) = game_state.turn
          /\ game.pc \in {"player_move", "player_check", "bot_move"} =>
                Cardinality(CellsShot(player_board)) = game_state.turn - 1
          /\ game.pc = "bot_check" =>
                Cardinality(CellsShot(player_board)) = game_state.turn)
    /\ [][/\ game.pc = "player_move" =>
                /\ game'.last_try.actor = "player"
                /\ game'.last_try.outcome
                      \in {"FormatError", "AlreadyShotError", "shot"}
                /\ player_board' = player_board
                /\ game_state' = game_state
                /\ IF game'.last_try.outcome = "shot"
                   THEN /\ game'.pc = "player_check"
                        /\ Cardinality(CellsShot(bot_board'))
                              = Cardinality(CellsShot(bot_board)) + 1
                   ELSE /\ game'.pc = "player_move"
                        /\ bot_board' = bot_board
          /\ game.pc = "bot_move" =>
                /\ game'.last_try.actor = "bot"
                /\ game'.last_try.outcome \in {"AlreadyShotError", "shot"}
                /\ bot_board' = bot_board
                /\ game_state' = game_state
                /\ IF game'.last_try.outcome = "shot"
                   THEN /\ game'.pc = "bot_check"
                        /\ Cardinality(CellsShot(player_board'))
                              = Cardinality(CellsShot(player_board)) + 1
                   ELSE /\ game'.pc = "bot_move"
                        /\ player_board' = player_board
          /\ game.pc \notin {"player_move", "bot_move"} =>
                /\ player_board' = player_board
                /\ bot_board' = bot_board]_vars

\* C11 witness: in the second round the bot drew a cell already shot and is
\* still to move
C11_Witness ==
    /\ game.pc = "bot_move"
    /\ game.last_try = [actor |-> "bot", outcome |-> "AlreadyShotError"]
    /\ game_state.turn = 2
    /\ Len(game_state.move_history) = 1

\* C12: under fairness (the player eventually enters a cell not yet shot, the
\* random draw eventually yields a cell not yet shot) every run of play_game
\* reaches a terminal state with a winner.
C12_GameTerminates ==
    <>(game.pc = "done" /\ game.winner \in {"player", "bot"})

\* C12 witness: the player won in the third round, after the bot's two shots
C12_Witness ==
    /\ game.pc = "done"
    /\ game.winner = "player"
    /\ game_state.turn = 3
    /\ Cardinality(CellsShot(player_board)) = 2

\* the log row records a shot made at board b: the cell it names was shot,
\* and the row says hit exactly when the cell is in hits
RowReflectsShot(b, move, hit) ==
    LET coord == parse_coordinates(move)
    IN  /\ coord.ok
        /\ <<coord.row, coord.col>> \in CellsShot(b)
        /\ hit \in {"hit", "miss"}
        /\ hit = "hit" <=> <<coord.row, coord.col>> \in b.hits

\* C13: every move-log row has player_hit and bot_hit equal to "hit" or
\* "miss", reflecting a shot made in that turn, except that in the final row
\* of a game the player won the bot's fields bot_move and bot_hit are blank.
\* The code violates it: the final row of a game the player won has
\* bot_hit = "miss" for a shot the bot never made.
C13_LogRowsReflectShots ==
    \A i \in DOMAIN game_state.move_history :
        LET row == game_state.move_history[i]
        IN  /\ RowReflectsShot(bot_board, row.player_move, row.player_hit)
            /\ IF game.winner = "player" /\ i = Len(game_state.move_history)
               THEN row.bot_move = <<>> /\ row.bot_hit = ""
               ELSE RowReflectsShot(player_board, row.bot_move, row.bot_hit)

\* the successful shots of the player and of the bot so far
ShotsByPlayer == Cardinality(CellsShot(bot_board))
ShotsByBot == Cardinality(CellsShot(player_board))

\* C23: the successful shots of play_game alternate strictly: the player's
\* shots are as many as the bot's or one more; once the player has shot in a
\* round the player's shots are as many as the turn counter; a shot of the
\* player is made only when the counts are equal and a shot of the bot only
\* when the player is one ahead, so neither shoots twice in a row.
C23_ShotsAlternate ==
    /\ [](/\ ShotsByPlayer - ShotsByBot \in {0, 1}
          /\ game.pc \in {"player_check", "bot_move", "bot_check",
                          "round_start", "done"} =>
                ShotsByPlayer = game_state.turn
          /\ game.pc = "player_move" => ShotsByPlayer = game_state.turn - 1)
    /\ [][/\ ShotsByPlayer' # ShotsByPlayer =>
                /\ ShotsByPlayer' = ShotsByPlayer + 1
                /\ ShotsByBot' = ShotsByBot
                /\ ShotsByPlayer = ShotsByBot
                /\ player_board' = player_board
          /\ ShotsByBot' # ShotsByBot =>
                /\ ShotsByBot' = ShotsByBot + 1
                /\ ShotsByPlayer' = ShotsByPlayer
                /\ ShotsByPlayer = ShotsByBot + 1
                /\ bot_board' = bot_board]_vars

\* C23 witness: in the third round the player has shot three times and the
\* bot, about to shoot, twice
C23_Witness ==
    /\ game.pc = "bot_move"
    /\ game_state.turn = 3
    /\ ShotsByPlayer = 3
    /\ ShotsByBot = 2

\* a cell of a ship of b that record_shot accepts
FreshShipCell(b) ==
    \E c \in FleetCells(b) :
        /\ c \notin ShotOrMarked(b)
        /\ record_shot(b, c[1], c[2]).result # "AlreadyShotError"

\* C24: for boards built from validated fleets that are not empty, whenever
\* play_game asks an actor to shoot the target board has a cell in none of
\* hits, misses and destroyed_zones, so a shot can succeed: the target has
\* a ship afloat, and a cell of it that is not hit is such a cell.
C24_ShotAlwaysPossible ==
    /\ game.pc = "player_move" =>
          /\ ~AllSunk(bot_board)
          /\ FreshShipCell(bot_board)
          /\ AllCells \ ShotOrMarked(bot_board) # {}
    /\ game.pc = "bot_move" =>
          /\ ~AllSunk(player_board)
          /\ FreshShipCell(player_board)
          /\ AllCells \ ShotOrMarked(player_board) # {}

\* C24 witness: the player is to shoot in the third round; of the bot's two
\* ships A1 is sunk and its halo marked, and A3 is the one cell afloat
C24_Witness ==
    /\ game.pc = "player_move"
    /\ game_state.turn = 3
    /\ Len(bot_board.ships) = 2
    /\ Sunk(bot_board, bot_board.ships[1])
    /\ bot_board.destroyed_zones # {}
    /\ FleetCells(bot_board) \ ShotOrMarked(bot_board) = {<<0, 2>>}

(***************************************************************************)
(* Claims about the coordinate codec (SpecCodec)                           *)
(***************************************************************************)
\* the upper-case form of a text, without the spaces around it
UppercaseForm(s) == upper(strip(s))

\* C14: for every cell c of the board parse_coordinates(format_coordinates(c))
\* is c, and for every text s that parse_coordinates accepts
\* format_coordinates(parse_coordinates(s)) is the upper-case form of s.  The
\* code violates the second half: int() reads "05", "+5" and " 5" as 5, so
\* "a05" is accepted and comes back as "A5".
C14_RoundTrips ==
    /\ codec.first = "format" =>
            /\ codec.pc # "FormatError"
            /\ codec.pc = "done" => codec.cell = codec.in_cell
    /\ (codec.first = "parse" /\ codec.pc = "done") =>
            codec.text = UppercaseForm(codec.in_text)

(***************************************************************************)
(* Claims about get_ship_cells (SpecCells)                                 *)
(***************************************************************************)
\* C15: for two cells of the board that share a row or a column
\* get_ship_cells returns the inclusive run between them along the varying
\* axis, |end - start| + 1 cells in ascending order whichever end is given
\* first (one cell when start = end); for two cells that share neither it
\* fails with the geometry error.
C15_InclusiveAscendingRun ==
    LET start == cells_call.start
        end == cells_call.end
        cells == cells_call.cells
        n == Abs(end[1] - start[1]) + Abs(end[2] - start[2]) + 1
    IN  cells_call.pc \in {"returned", "GeometryError"} =>
            IF start[1] = end[1] \/ start[2] = end[2]
            THEN /\ cells_call.pc = "returned"
                 /\ Len(cells) = n
                 /\ Range(cells) = CoveredCells(<<start, end>>)
                 /\ start \in Range(cells) /\ end \in Range(cells)
                 /\ \A i \in 1..(Len(cells) - 1) :
                        \/ /\ cells[i + 1][1] = cells[i][1]
                           /\ cells[i + 1][2] = cells[i][2] + 1
                        \/ /\ cells[i + 1][2] = cells[i][2]
                           /\ cells[i + 1][1] = cells[i][1] + 1
                 /\ start = end => cells = <<start>>
            ELSE cells_call.pc = "GeometryError"

\* C15 witness: a vertical ship given from its lower end, G3 to D3, comes
\* back as the four cells D3, E3, F3, G3
C15_Witness ==
    /\ cells_call.pc = "returned"
    /\ cells_call.start = <<6, 2>>
    /\ cells_call.end = <<3, 2>>
    /\ cells_call.cells = <<<<3, 2>>, <<4, 2>>, <<5, 2>>, <<6, 2>>>>

(***************************************************************************)
(* Claims about interactive placement (SpecPlace)                          *)
(***************************************************************************)
\* the ship may be added to the accepted ships: a straight line of a size
\* still needed that neither overlaps nor touches an accepted ship
AcceptableNext(accepted, ship) ==
    /\ StraightLine(ship)
    /\ ShipLength(ship) \in 1..4
    /\ Cardinality({i \in DOMAIN accepted :
                        ShipLength(accepted[i]) = ShipLength(ship)})
          < 5 - ShipLength(ship)
    /\ \A i \in DOMAIN accepted :
          /\ ~ShipsShareCell(accepted[i], ship)
          /\ ~ShipsTouch(accepted[i], ship)

\* C10: an entered ship that the validator refuses for overlap or adjacency
\* leaves the list of placed ships and the ship count as they were, and a
\* ship entered afterwards that is valid against the accepted ships is
\* accepted.  The code violates both: the refused ship stays in ships, and
\* every later validation fails on it.
C10_RefusedShipLeavesPlacementIntact ==
    [][place'.pc = "prompt" =>
        /\ last_line'.outcome \in {"OverlapError", "AdjacencyError"} =>
              /\ place'.ships = place.ships
              /\ place'.ship_count = place.ship_count
        /\ (/\ last_line'.ship # <<>>
            /\ AcceptableNext(place.accepted, last_line'.ship)) =>
              last_line'.outcome = "placed"]_vars

\* C20: whenever get_player_ships returns, the fleet it returns passes
\* validate_ship_placement with final_check = TRUE; a ship is counted as
\* placed only in a step that appended it to the list and validated the list
\* with it, with final_check = TRUE exactly when it is the last of the ten.
C20_PlacedFleetIsValid ==
    /\ [](place.pc = "returned" =>
            /\ validate_ship_placement(place.ships, TRUE) = "ok"
            /\ place.ship_count = 10
            /\ Len(place.ships) = 10
            /\ \A i \in DOMAIN place.ships : StraightLine(place.ships[i])
            /\ \A n \in 1..4 :
                 Cardinality({i \in DOMAIN place.ships :
                                 ShipLength(place.ships[i]) = n}) = 5 - n
            /\ \A i \in DOMAIN place.ships : \A j \in DOMAIN place.ships :
                 i # j => /\ ~ShipsShareCell(place.ships[i], place.ships[j])
                          /\ ~ShipsTouch(place.ships[i], place.ships[j]))
    /\ [][place'.ship_count # place.ship_count =>
            /\ place'.ship_count = place.ship_count + 1
            /\ last_line'.outcome = "placed"
            /\ place'.ships = Append(place.ships, last_line'.ship)
            /\ Len(place'.ships) = place'.ship_count
            /\ validate_ship_placement(place'.ships, place'.ship_count = 10)
                  = "ok"]_vars

\* C20 witness: ten ships were placed, the first entered from its far end
\* (A4 A1), and the fleet was returned
C20_Witness ==
    /\ place.pc = "returned"
    /\ place.ships[1] = <<<<0, 3>>, <<0, 0>>>>
    /\ place.ship_count = 10

=============================================================================
